---- MODULE Spec2Model ----
(***************************************************************************)
(* Model of the flow-log analyzer (src/code/flowlog_parser.py) and of the  *)
(* run sequence of src/code/main.py.                                       *)
(*                                                                         *)
(* Strings are sequences of one-character strings, so that int() and       *)
(* str.lower() are computed character by character.  A CSV row is the      *)
(* sequence of its columns, a log line is the sequence of its whitespace-  *)
(* separated fields (line.strip().split()), a file is the sequence of its  *)
(* rows or lines.  A dict is a function whose DOMAIN is its key set.       *)
(***************************************************************************)
EXTENDS Integers, Sequences, FiniteSets, TLC

(* ------------------------------ bounds --------------------------------- *)

\* Longest log file (in lines) the run specification draws.
MaxLines == 3

\* Largest worker count of the pool the run specification draws.
MaxWorkers == 2

\* Longest mapping file (in rows) the load specification draws.
MaxRows == 2

(* ------------------------- program constants --------------------------- *)

TAGMAP_PORT_IDX == 0
TAGMAP_PROTO_IDX == 1
TAGMAP_TAG_IDX == 2

IPMF_PORT_IDX == 0
IPMF_PROTO_IDX == 1

\* 1000 in the source; scaled down so that a file of MaxLines lines spans
\* a full batch and a final partial batch.
CHUNK_SIZE == 2

V2_FIELDS_COUNT == 14
V2_DST_PORT_IDX == 6
V2_PROTO_NUM_IDX == 7

\* DEBUG = True: analyze_flow_logs prints the counts before writing them.
DEBUG == TRUE

(* ------------------------------ strings -------------------------------- *)

s_dstport == <<"d", "s", "t", "p", "o", "r", "t">>
s_protocol == <<"p", "r", "o", "t", "o", "c", "o", "l">>
s_tag == <<"t", "a", "g">>
s_tcp == <<"t", "c", "p">>
s_TCP == <<"T", "C", "P">>
s_udp == <<"u", "d", "p">>
s_UDP == <<"U", "D", "P">>
s_web == <<"w", "e", "b">>
s_Decimal == <<"D", "e", "c">>
s_fill == <<"f">>
s_x == <<"x">>
s_80 == <<"8", "0">>
s_81 == <<"8", "1">>
s_m1 == <<"-", "1">>
s_6 == <<"6">>
s_17 == <<"1", "7">>
s_99 == <<"9", "9">>

\* The tag counted for a key that tag_map does not hold.
Untagged == <<"U", "n", "t", "a", "g", "g", "e", "d">>

Digits == {"0", "1", "2", "3", "4", "5", "6", "7", "8", "9"}

DigitVal(c) ==
    CASE c = "0" -> 0 [] c = "1" -> 1 [] c = "2" -> 2 [] c = "3" -> 3
      [] c = "4" -> 4 [] c = "5" -> 5 [] c = "6" -> 6 [] c = "7" -> 7
      [] c = "8" -> 8 [] c = "9" -> 9

\* The digits of an int() literal after its optional sign.
IntBody(s) == IF Len(s) > 0 /\ s[1] \in {"+", "-"} THEN Tail(s) ELSE s

\* int(s) returns (does not raise ValueError): an optional sign followed by
\* at least one decimal digit.  (Surrounding blanks and "_" separators, which
\* int() also accepts, are outside the alphabet of the model.)
IsIntLiteral(s) ==
    /\ Len(IntBody(s)) >= 1
    /\ \A i \in 1..Len(IntBody(s)) : IntBody(s)[i] \in Digits

RECURSIVE DigitsVal(_)
DigitsVal(s) ==
    IF s = <<>> THEN 0
    ELSE 10 * DigitsVal(SubSeq(s, 1, Len(s) - 1)) + DigitVal(s[Len(s)])

\* int(s) for a literal s.
IntOf(s) == IF s[1] = "-" THEN 0 - DigitsVal(IntBody(s)) ELSE DigitsVal(IntBody(s))

LowerChar(c) ==
    CASE c = "T" -> "t" [] c = "C" -> "c" [] c = "P" -> "p"
      [] c = "U" -> "u" [] c = "D" -> "d" [] OTHER -> c

\* str.lower()
Lower(s) == [i \in 1..Len(s) |-> LowerChar(s[i])]

(* ------------------------------- dicts --------------------------------- *)

EmptyDict == [k \in {} |-> 0]

\* d[k] = v
Put(d, k, v) == [x \in DOMAIN d \cup {k} |-> IF x = k THEN v ELSE d[x]]

\* The read of d[k] += 1 taken for an initialisation: the key is set to 0.
TouchReset(d, k) == Put(d, k, 0)

\* defaultdict(int).__getitem__: a missing key is inserted with value 0.
Touch(d, k) == IF k \in DOMAIN d THEN d ELSE Put(d, k, 0)

RECURSIVE SumOver(_, _)
SumOver(d, ks) ==
    IF ks = {} THEN 0
    ELSE LET k == CHOOSE x \in ks : TRUE IN d[k] + SumOver(d, ks \ {k})

\* sum(d.values())
Sum(d) == SumOver(d, DOMAIN d)

(* --------------------------- mapping loaders --------------------------- *)

\* row[i] of a csv row, i counted from 0 as in the source.
Col(row, i) == row[i + 1]

\* row[i] raises IndexError.
NoCol(row, i) == Len(row) < i + 1

\* TagMappings.process, one iteration of the loop over the rows of the file:
\* "skip" for the header row, "IndexError" or "ValueError" as the expressions
\* of the loop body raise them (in evaluation order), else "append".
TagRowOutcome(row) ==
    IF NoCol(row, TAGMAP_PORT_IDX) THEN "IndexError"
    ELSE IF Col(row, TAGMAP_PORT_IDX) = s_dstport THEN "skip"
    ELSE IF ~IsIntLiteral(Col(row, TAGMAP_PORT_IDX)) THEN "ValueError"
    ELSE IF NoCol(row, TAGMAP_PROTO_IDX) THEN "IndexError"
    ELSE IF NoCol(row, TAGMAP_TAG_IDX) THEN "IndexError"
    ELSE "append"

TagEntry(row) ==
    << IntOf(Col(row, TAGMAP_PORT_IDX)), Col(row, TAGMAP_PROTO_IDX),
       Col(row, TAGMAP_TAG_IDX) >>

\* TagMappings.process from row i on, buff holding the entries so far: the
\* try block encloses the loop, and both exceptions become
\* TagMappingsException.
RECURSIVE TagProcessFrom(_, _, _)
TagProcessFrom(rows, i, buff) ==
    IF i > Len(rows) THEN [exc |-> "none", buff |-> buff]
    ELSE LET o == TagRowOutcome(rows[i]) IN
         IF o = "skip" THEN TagProcessFrom(rows, i + 1, buff)
         ELSE IF o = "append"
              THEN TagProcessFrom(rows, i + 1, Append(buff, TagEntry(rows[i])))
         ELSE [exc |-> "TagMappingsException", buff |-> <<>>]

TagProcess(rows) == TagProcessFrom(rows, 1, <<>>)

\* ProtoMappings.process, one iteration of the loop.
ProtoRowOutcome(row) ==
    IF NoCol(row, IPMF_PORT_IDX) THEN "IndexError"
    ELSE IF ~IsIntLiteral(Col(row, IPMF_PORT_IDX)) THEN "ValueError"
    ELSE IF NoCol(row, IPMF_PROTO_IDX) THEN "IndexError"
    ELSE "append"

ProtoEntry(row) ==
    << IntOf(Col(row, IPMF_PORT_IDX)), Lower(Col(row, IPMF_PROTO_IDX)) >>

\* What ProtoMappings.process does when an iteration raises ValueError: the
\* try block encloses the whole loop, so "except ValueError: pass" leaves the
\* loop and the entries read so far are returned.
ProtoOnValueError(rows, i, buff) == [exc |-> "none", buff |-> buff]

\* ProtoMappings.process from row i on.
RECURSIVE ProtoProcessFrom(_, _, _)
ProtoProcessFrom(rows, i, buff) ==
    IF i > Len(rows) THEN [exc |-> "none", buff |-> buff]
    ELSE LET o == ProtoRowOutcome(rows[i]) IN
         IF o = "append"
         THEN ProtoProcessFrom(rows, i + 1, Append(buff, ProtoEntry(rows[i])))
         ELSE IF o = "ValueError" THEN ProtoOnValueError(rows, i, buff)
         ELSE [exc |-> "ProtoMappingsException", buff |-> <<>>]

ProtoProcess(rows) == ProtoProcessFrom(rows, 1, <<>>)

\* for entry in buff: d[(entry[0], entry[1])] = entry[2]
RECURSIVE FillTagMap(_, _)
FillTagMap(d, buff) ==
    IF buff = <<>> THEN d
    ELSE FillTagMap(Put(d, << Head(buff)[1], Head(buff)[2] >>, Head(buff)[3]),
                    Tail(buff))

\* for entry in buff: d[entry[0]] = entry[1]
RECURSIVE FillTable(_, _)
FillTable(d, buff) ==
    IF buff = <<>> THEN d
    ELSE FillTable(Put(d, Head(buff)[1], Head(buff)[2]), Tail(buff))

\* The table built from the IPPROTO_ constants of the socket module, names
\* with the prefix cut (upper case); the entries the model's lines use.
BuiltinTable == Put(Put(EmptyDict, 6, s_TCP), 17, s_UDP)

(* --------------------------- record parsing ---------------------------- *)

\* fields[i] of a split line, i counted from 0 as in the source.
Field(fields, i) == fields[i + 1]

\* The field count check off by one: a line of 13 fields passes it.
TooFewFieldsOffByOne(fields) == Len(fields) < V2_FIELDS_COUNT - 1

\* len(fields) < V2_FIELDS_COUNT
TooFewFields(fields) == Len(fields) < V2_FIELDS_COUNT

\* One iteration of the loop of _analyze_flow_logs up to the computation of
\* key: "short" when the field count check fails, else what the try block
\* meets first: int(fields[V2_PROTO_NUM_IDX]) raising ValueError, the lookup
\* in self.table (a plain dict) raising KeyError, int(dstport) raising
\* ValueError; "ok" when key is computed.
LineOutcome(fields, tbl) ==
    IF TooFewFields(fields) THEN "short"
    ELSE IF ~IsIntLiteral(Field(fields, V2_PROTO_NUM_IDX)) THEN "ValueError"
    ELSE IF IntOf(Field(fields, V2_PROTO_NUM_IDX)) \notin DOMAIN tbl THEN "KeyError"
    ELSE IF ~IsIntLiteral(Field(fields, V2_DST_PORT_IDX)) THEN "ValueError"
    ELSE "ok"

\* key = (int(dstport), protocol_name.lower())
KeyOf(fields, tbl) ==
    << IntOf(Field(fields, V2_DST_PORT_IDX)),
       Lower(tbl[IntOf(Field(fields, V2_PROTO_NUM_IDX))]) >>

\* The tag whose count line 298 or line 300 increments.
TagOf(key, tmap) == IF key \in DOMAIN tmap THEN tmap[key] ELSE Untagged

\* except (ValueError, IndexError): the exceptions of the try block that are
\* caught and counted in self.errors.  KeyError is a LookupError but not an
\* IndexError: it is not caught and leaves _analyze_flow_logs.
Caught(outcome) == outcome \in {"ValueError", "IndexError"}

(* ------------------------------- state --------------------------------- *)

VARIABLES
    mapfile,            \* [path, rows]: the mapping path is given; the file's rows
    proto_map_file,     \* [path, rows]
    flowlogs,           \* [path, rows]: the log file's lines
    outputfile,         \* BOOLEAN: the output path is given
    max_workers,        \* threads of the pool
    tag_map, table,     \* the lookup dicts
    tag_count, combinations_count, errors,
    counts_lock,        \* 0 when free, else the worker holding it
    pc,                 \* where main's thread is
    handle,             \* lines of the log file read so far
    batches,            \* the batches submitted, in submission order
    fstate,             \* per submitted batch: "queued", "running", "done", "raised"
    queue,              \* work queue of the pool: indices into batches
    wpc, wb, widx, wkey, wtmp,   \* per worker: position, batch, line, key, value read
    entry,              \* per worker: the counts when it acquired the lock (history)
    stdout,             \* what the DEBUG block printed
    output              \* the report: [written, tag_count, combinations_count]

vars == << mapfile, proto_map_file, flowlogs, outputfile, max_workers, tag_map,
           table, tag_count, combinations_count, errors, counts_lock, pc, handle,
           batches, fstate, queue, wpc, wb, widx, wkey, wtmp, entry, stdout,
           output >>

inputs == << mapfile, proto_map_file, flowlogs, outputfile, max_workers >>
counts == << tag_count, combinations_count, errors >>
pool == << batches, fstate, queue >>
wlocal == << wb, widx, wkey, wtmp >>

Workers == 1..MaxWorkers
Pool == 1..max_workers

NoKey == << 0, <<>> >>

File(rows) == [path |-> TRUE, rows |-> rows]
NoFile == [path |-> FALSE, rows |-> <<>>]

\* GenericFlowLogParser.__init__ and DefaultFlowLogsParser.__init__, then
\* main about to call read_mappings_file.
Constructed ==
    /\ tag_map = EmptyDict
    /\ table = EmptyDict
    /\ tag_count = EmptyDict
    /\ combinations_count = EmptyDict
    /\ errors = 0
    /\ counts_lock = 0
    /\ pc = "read_mappings_file"
    /\ handle = 0
    /\ batches = <<>>
    /\ fstate = <<>>
    /\ queue = <<>>
    /\ wpc = [w \in Workers |-> "idle"]
    /\ wb = [w \in Workers |-> 0]
    /\ widx = [w \in Workers |-> 0]
    /\ wkey = [w \in Workers |-> NoKey]
    /\ wtmp = [w \in Workers |-> 0]
    /\ entry = [w \in Workers |-> << EmptyDict, EmptyDict, 0 >>]
    /\ stdout = << >>
    /\ output = [written |-> FALSE, tag_count |-> EmptyDict,
                 combinations_count |-> EmptyDict]

(* ------------------------- main: the load stage ------------------------ *)

\* GenericFlowLogParser.read_mappings_file, called by main; the
\* FlowLogParserException it raises is caught by main, which then ends.
read_mappings_file ==
    /\ pc = "read_mappings_file"
    /\ IF ~mapfile.path
       THEN /\ pc' = "read_proto_mappings"
            /\ UNCHANGED tag_map
       ELSE LET r == TagProcess(mapfile.rows) IN
            IF r.exc # "none"
            THEN /\ pc' = "failed"
                 /\ UNCHANGED tag_map
            ELSE /\ pc' = "read_proto_mappings"
                 /\ tag_map' = FillTagMap(tag_map, r.buff)
    /\ UNCHANGED << inputs, table, counts, counts_lock, handle, pool, wpc,
                    wlocal, entry, stdout, output >>

\* GenericFlowLogParser.read_proto_mappings
read_proto_mappings ==
    /\ pc = "read_proto_mappings"
    /\ IF proto_map_file.path
       THEN LET r == ProtoProcess(proto_map_file.rows) IN
            IF r.exc # "none"
            THEN /\ pc' = "failed"
                 /\ UNCHANGED table
            ELSE /\ pc' = "analyze_flow_logs"
                 /\ table' = FillTable(table, r.buff)
       ELSE /\ pc' = "analyze_flow_logs"
            /\ table' = BuiltinTable
    /\ UNCHANGED << inputs, tag_map, counts, counts_lock, handle, pool, wpc,
                    wlocal, entry, stdout, output >>

(* ------------------------ main: analyze_flow_logs ---------------------- *)

\* if not self.flowlogs: return; else the file is opened and the pool made.
analyze_flow_logs ==
    /\ pc = "analyze_flow_logs"
    /\ pc' = IF ~flowlogs.path THEN "done" ELSE "read"
    /\ UNCHANGED << inputs, tag_map, table, counts, counts_lock, handle, pool,
                    wpc, wlocal, entry, stdout, output >>

\* A chunk one line short of CHUNK_SIZE (never empty before the end of file).
NextChunkShort ==
    SubSeq(flowlogs.rows, handle + 1,
           IF handle + CHUNK_SIZE - 1 < Len(flowlogs.rows)
           THEN handle + CHUNK_SIZE - 1 ELSE Len(flowlogs.rows))

\* list(islice(handle, CHUNK_SIZE))
NextChunk ==
    SubSeq(flowlogs.rows, handle + 1,
           IF handle + CHUNK_SIZE < Len(flowlogs.rows)
           THEN handle + CHUNK_SIZE ELSE Len(flowlogs.rows))

\* One iteration of the while loop: read a chunk, leave the loop when it is
\* empty, else submit it to the pool.
ReadChunk ==
    /\ pc = "read"
    /\ IF Len(NextChunk) = 0
       THEN /\ pc' = "shutdown"
            /\ UNCHANGED << handle, pool >>
       ELSE /\ handle' = handle + Len(NextChunk)
            /\ batches' = Append(batches, NextChunk)
            /\ fstate' = Append(fstate, "queued")
            /\ queue' = Append(queue, Len(batches) + 1)
            /\ UNCHANGED pc
    /\ UNCHANGED << inputs, tag_map, table, counts, counts_lock, wpc, wlocal,
                    entry, stdout, output >>

\* The pool left without waiting, as by shutdown(wait=False).
AllWorkDoneNoWait == TRUE

\* Every submitted batch has finished, with or without an exception.
AllWorkDone == \A i \in 1..Len(fstate) : fstate[i] \in {"done", "raised"}

\* Leaving the with block: ThreadPoolExecutor.__exit__ is shutdown(wait=True),
\* which returns when the workers have run every submitted work item.
ExecutorExit ==
    /\ pc = "shutdown"
    /\ AllWorkDone
    /\ pc' = IF DEBUG THEN "debug" ELSE "write"
    /\ UNCHANGED << inputs, tag_map, table, counts, counts_lock, handle, pool,
                    wpc, wlocal, entry, stdout, output >>

\* if DEBUG: print the counts.
DebugPrint ==
    /\ pc = "debug"
    /\ stdout' = << tag_count, combinations_count >>
    /\ pc' = "write"
    /\ UNCHANGED << inputs, tag_map, table, counts, counts_lock, handle, pool,
                    wpc, wlocal, entry, output >>

\* _write_output_file without its "if not self.outputfile: return".
write_output_file_Always ==
    /\ pc = "write"
    /\ output' = [written |-> TRUE, tag_count |-> tag_count,
                  combinations_count |-> combinations_count]
    /\ pc' = "done"
    /\ UNCHANGED << inputs, tag_map, table, counts, counts_lock, handle, pool,
                    wpc, wlocal, entry, stdout >>

\* GenericFlowLogParser._write_output_file: one line per entry of each dict.
write_output_file ==
    /\ pc = "write"
    /\ IF ~outputfile
       THEN UNCHANGED output
       ELSE output' = [written |-> TRUE, tag_count |-> tag_count,
                       combinations_count |-> combinations_count]
    /\ pc' = "done"
    /\ UNCHANGED << inputs, tag_map, table, counts, counts_lock, handle, pool,
                    wpc, wlocal, entry, stdout >>

(* ------------------- workers: _analyze_flow_logs ----------------------- *)

\* The lines of the batch worker w runs, and the line its loop is at.
BatchOf(w) == batches[wb[w]]
LineOf(w) == BatchOf(w)[widx[w]]

\* An idle thread of the pool takes the next work item off the queue and
\* calls _analyze_flow_logs(lines).  The threads of the pool are
\* interchangeable: of the idle ones, the one of least index takes the item.
Take(w) ==
    /\ w \in Pool
    /\ wpc[w] = "idle"
    /\ \A v \in Pool : v < w => wpc[v] # "idle"
    /\ queue # << >>
    /\ wb' = [wb EXCEPT ![w] = Head(queue)]
    /\ queue' = Tail(queue)
    /\ fstate' = [fstate EXCEPT ![Head(queue)] = "running"]
    /\ wpc' = [wpc EXCEPT ![w] = "acquire"]
    /\ UNCHANGED << inputs, tag_map, table, counts, counts_lock, pc, handle,
                    batches, widx, wkey, wtmp, entry, stdout, output >>

\* The counts updated without mutual exclusion.
LockFreeNoLock == TRUE

\* threading.Lock: acquire blocks while another thread holds the lock.
LockFree == counts_lock = 0

\* with self.counts_lock: (entry)
Acquire(w) ==
    /\ wpc[w] = "acquire"
    /\ LockFree
    /\ counts_lock' = w
    /\ widx' = [widx EXCEPT ![w] = 1]
    /\ entry' = [entry EXCEPT ![w] = << tag_count, combinations_count, errors >>]
    /\ wpc' = [wpc EXCEPT ![w] = "for"]
    /\ UNCHANGED << inputs, tag_map, table, counts, pc, handle, pool, wb, wkey,
                    wtmp, stdout, output >>

\* Where the loop goes from "for": past the last line the with block is left;
\* a short line and a caught exception go to self.errors += 1; an exception
\* that is not caught leaves the function; else key is computed.
AfterFor(w) ==
    IF widx[w] > Len(BatchOf(w)) THEN "exit"
    ELSE LET o == LineOutcome(LineOf(w), table) IN
         IF o = "short" \/ Caught(o) THEN "errors_read"
         ELSE IF o = "ok" THEN "tag_read"
         ELSE "raise"

\* ForLine with a table whose lookup inserts a missing protocol number (as
\* a defaultdict does) before the exception is raised.
ForLineInserting(w) ==
    /\ wpc[w] = "for"
    /\ wpc' = [wpc EXCEPT ![w] = AfterFor(w)]
    /\ wkey' = [wkey EXCEPT ![w] =
                  IF AfterFor(w) = "tag_read" THEN KeyOf(LineOf(w), table) ELSE @]
    /\ table' = IF AfterFor(w) = "raise"
                THEN Put(table, IntOf(Field(LineOf(w), V2_PROTO_NUM_IDX)), << >>)
                ELSE table
    /\ UNCHANGED << inputs, tag_map, counts, counts_lock, pc, handle,
                    pool, wb, widx, wtmp, entry, stdout, output >>

\* for line in lines: ... up to key = (int(dstport), protocol_name.lower())
ForLine(w) ==
    /\ wpc[w] = "for"
    /\ wpc' = [wpc EXCEPT ![w] = AfterFor(w)]
    /\ wkey' = [wkey EXCEPT ![w] =
                  IF AfterFor(w) = "tag_read" THEN KeyOf(LineOf(w), table) ELSE @]
    /\ UNCHANGED << inputs, tag_map, table, counts, counts_lock, pc, handle,
                    pool, wb, widx, wtmp, entry, stdout, output >>

\* self.errors += 1 is a read followed by a write.
ErrorsRead(w) ==
    /\ wpc[w] = "errors_read"
    /\ wtmp' = [wtmp EXCEPT ![w] = errors]
    /\ wpc' = [wpc EXCEPT ![w] = "errors_write"]
    /\ UNCHANGED << inputs, tag_map, table, counts, counts_lock, pc, handle,
                    pool, wb, widx, wkey, entry, stdout, output >>

\* The write of self.errors += 1; then continue, or the end of the loop body.
ErrorsWrite(w) ==
    /\ wpc[w] = "errors_write"
    /\ errors' = wtmp[w] + 1
    /\ widx' = [widx EXCEPT ![w] = @ + 1]
    /\ wpc' = [wpc EXCEPT ![w] = "for"]
    /\ UNCHANGED << inputs, tag_map, table, tag_count, combinations_count,
                    counts_lock, pc, handle, pool, wb, wkey, wtmp, entry, stdout,
                    output >>

\* self.tag_count[tag] += 1, the read: the defaultdict inserts a missing key.
TagRead(w) ==
    /\ wpc[w] = "tag_read"
    /\ tag_count' = Touch(tag_count, TagOf(wkey[w], tag_map))
    /\ wtmp' = [wtmp EXCEPT ![w] = tag_count'[TagOf(wkey[w], tag_map)]]
    /\ wpc' = [wpc EXCEPT ![w] = "tag_write"]
    /\ UNCHANGED << inputs, tag_map, table, combinations_count, errors,
                    counts_lock, pc, handle, pool, wb, widx, wkey, entry, stdout,
                    output >>

\* self.tag_count[tag] += 1, the write.
TagWrite(w) ==
    /\ wpc[w] = "tag_write"
    /\ tag_count' = Put(tag_count, TagOf(wkey[w], tag_map), wtmp[w] + 1)
    /\ wpc' = [wpc EXCEPT ![w] = "comb_read"]
    /\ UNCHANGED << inputs, tag_map, table, combinations_count, errors,
                    counts_lock, pc, handle, pool, wlocal, entry, stdout, output >>

\* self.combinations_count[key] += 1, the read.
CombRead(w) ==
    /\ wpc[w] = "comb_read"
    /\ combinations_count' = Touch(combinations_count, wkey[w])
    /\ wtmp' = [wtmp EXCEPT ![w] = combinations_count'[wkey[w]]]
    /\ wpc' = [wpc EXCEPT ![w] = "comb_write"]
    /\ UNCHANGED << inputs, tag_map, table, tag_count, errors, counts_lock, pc,
                    handle, pool, wb, widx, wkey, entry, stdout, output >>

\* self.combinations_count[key] += 1, the write; the end of the loop body.
CombWrite(w) ==
    /\ wpc[w] = "comb_write"
    /\ combinations_count' = Put(combinations_count, wkey[w], wtmp[w] + 1)
    /\ widx' = [widx EXCEPT ![w] = @ + 1]
    /\ wpc' = [wpc EXCEPT ![w] = "for"]
    /\ UNCHANGED << inputs, tag_map, table, tag_count, errors, counts_lock, pc,
                    handle, pool, wb, wkey, wtmp, entry, stdout, output >>

\* The with block is left after the last line: the lock is released, the
\* function returns and the work item's future is done.
WithExit(w) ==
    /\ wpc[w] = "exit"
    /\ counts_lock' = 0
    /\ fstate' = [fstate EXCEPT ![wb[w]] = "done"]
    /\ wpc' = [wpc EXCEPT ![w] = "idle"]
    /\ UNCHANGED << inputs, tag_map, table, counts, pc, handle, batches, queue,
                    wlocal, entry, stdout, output >>

\* WithRaise without the release of the lock (as with a bare acquire() in
\* place of the with statement).
WithRaiseKeepsLock(w) ==
    /\ wpc[w] = "raise"
    /\ fstate' = [fstate EXCEPT ![wb[w]] = "raised"]
    /\ wpc' = [wpc EXCEPT ![w] = "idle"]
    /\ UNCHANGED << inputs, tag_map, table, counts, counts_lock, pc, handle,
                    batches, queue, wlocal, entry, stdout, output >>

\* The with block is left by an exception: the lock is released, and the pool
\* stores the exception in the work item's future, which nobody reads.
WithRaise(w) ==
    /\ wpc[w] = "raise"
    /\ counts_lock' = 0
    /\ fstate' = [fstate EXCEPT ![wb[w]] = "raised"]
    /\ wpc' = [wpc EXCEPT ![w] = "idle"]
    /\ UNCHANGED << inputs, tag_map, table, counts, pc, handle, batches, queue,
                    wlocal, entry, stdout, output >>

Worker(w) ==
    \/ Take(w)
    \/ Acquire(w)
    \/ ForLine(w)
    \/ ErrorsRead(w)
    \/ ErrorsWrite(w)
    \/ TagRead(w)
    \/ TagWrite(w)
    \/ CombRead(w)
    \/ CombWrite(w)
    \/ WithExit(w)
    \/ WithRaise(w)

Next ==
    \/ read_mappings_file
    \/ read_proto_mappings
    \/ analyze_flow_logs
    \/ ReadChunk
    \/ ExecutorExit
    \/ DebugPrint
    \/ write_output_file
    \/ \E w \in Workers : Worker(w)

(* ------------------- the run, one batch after another ------------------ *)

\* d[k] += 1 on a defaultdict(int)
Incr(d, k) == Put(Touch(d, k), k, Touch(d, k)[k] + 1)

\* _analyze_flow_logs(lines) run alone from line i on, c = << tag_count,
\* combinations_count, errors >>: the counts when it returns or raises.
RECURSIVE BatchResult(_, _, _)
BatchResult(c, lines, i) ==
    IF i > Len(lines) THEN c
    ELSE LET o == LineOutcome(lines[i], table) IN
         IF o = "short" \/ Caught(o)
         THEN BatchResult(<< c[1], c[2], c[3] + 1 >>, lines, i + 1)
         ELSE IF o = "ok"
         THEN BatchResult(<< Incr(c[1], TagOf(KeyOf(lines[i], table), tag_map)),
                             Incr(c[2], KeyOf(lines[i], table)), c[3] >>,
                          lines, i + 1)
         ELSE c

\* The batches of analyze_flow_logs run one after another in the order of
\* the file, from line h + 1 on.
RECURSIVE RunResult(_, _, _)
RunResult(c, rows, h) ==
    IF h >= Len(rows) THEN c
    ELSE LET e == IF h + CHUNK_SIZE < Len(rows) THEN h + CHUNK_SIZE ELSE Len(rows)
         IN RunResult(BatchResult(c, SubSeq(rows, h + 1, e), 1), rows, e)

(* ------------------------------- inputs -------------------------------- *)

\* A log line of n fields with the given destination port and protocol
\* number fields.
MkLine(n, port, proto) ==
    [i \in 1..n |-> IF i = V2_DST_PORT_IDX + 1 THEN port
                    ELSE IF i = V2_PROTO_NUM_IDX + 1 THEN proto
                    ELSE s_fill]

L_web == MkLine(14, s_80, s_6)
L_udp == MkLine(14, s_81, s_17)
L_neg == MkLine(14, s_m1, s_6)
L_empty == << >>
L_13 == MkLine(13, s_80, s_6)
L_badport == MkLine(14, s_x, s_6)
L_badproto == MkLine(14, s_80, s_x)
L_absent == MkLine(14, s_80, s_99)

LogLines == {L_web, L_udp, L_neg, L_empty, L_13, L_badport, L_badproto, L_absent}

SeqsUpTo(S, n) == UNION {[1..k -> S] : k \in 0..n}

GoodTagFile ==
    << <<s_dstport, s_protocol, s_tag>>, <<s_80, s_tcp, s_web>>,
       <<s_81, s_udp, s_web>> >>

GoodProtoFile == << <<s_6, s_TCP>>, <<s_17, s_UDP>> >>

\* The run stage: any log file of at most MaxLines lines, well-formed mapping
\* files, and a pool of one worker (as in the source) or of MaxWorkers.
InitRun ==
    /\ mapfile = File(GoodTagFile)
    /\ proto_map_file = File(GoodProtoFile)
    /\ flowlogs \in {File(f) : f \in SeqsUpTo(LogLines, MaxLines)}
    /\ outputfile = TRUE
    /\ max_workers \in {1, MaxWorkers}
    /\ Constructed

Spec == InitRun /\ [][Next]_vars

\* Rows of a tag-mapping file: the header, a well-formed row, a row with a
\* non-numeric port, a row with too few columns, an empty row.
TagRows ==
    { <<s_dstport, s_protocol, s_tag>>, <<s_80, s_tcp, s_web>>,
      <<s_x, s_tcp, s_web>>, <<s_80, s_tcp>>, << >> }

\* Rows of a protocol-number file: two well-formed rows, a row whose first
\* column is no integer, rows with too few columns.
ProtoRows ==
    { <<s_6, s_TCP>>, <<s_17, s_UDP>>, <<s_Decimal, s_x>>, <<s_17>>, <<s_x>>,
      << >> }

LoadLog == << L_web, L_badport, L_absent >>

\* The load stage: any tag-mapping file with a well-formed or no
\* protocol-number file, or any protocol-number file with a well-formed or
\* no tag-mapping file (files of at most MaxRows rows); then the run of
\* main over a fixed log file, or none, with one worker as in the source.
InitLoad ==
    /\ \/ /\ mapfile \in {NoFile} \cup {File(f) : f \in SeqsUpTo(TagRows, MaxRows)}
          /\ proto_map_file \in {NoFile, File(GoodProtoFile)}
       \/ /\ mapfile \in {NoFile, File(GoodTagFile)}
          /\ proto_map_file \in
                {NoFile} \cup {File(f) : f \in SeqsUpTo(ProtoRows, MaxRows)}
    /\ flowlogs \in {NoFile, File(LoadLog)}
    /\ outputfile \in BOOLEAN
    /\ max_workers = 1
    /\ Constructed

SpecLoad == InitLoad /\ [][Next]_vars

(* ===================== the claims' vocabulary ========================== *)

\* A field is numeric: it is a decimal numeral (what int() accepts).
Numeric(tok) == IsIntLiteral(tok)

\* The line passes the validation of the data model's invariant: at least
\* 14 fields, destination port (position 7) and protocol number (position
\* 8) both numeric.
PassesValidation(line) ==
    /\ Len(line) >= 14
    /\ Numeric(line[7])
    /\ Numeric(line[8])

\* The line is well-formed for RecordParser: it passes validation and its
\* protocol number is in the ProtocolTable.
WellFormed(line) == PassesValidation(line) /\ IntOf(line[8]) \in DOMAIN table

\* The indices of the well-formed lines among the first n lines.
WellFormedIn(lines, n) == {i \in 1..n : WellFormed(lines[i])}

\* The indices of the lines that violate validation among the first n.
MalformedIn(lines, n) == {i \in 1..n : ~WellFormed(lines[i])}

\* The counts a sequence of lines must produce on empty counts: one entry
\* per distinct key (per distinct resolved tag) of its well-formed lines.
ExpectedCombinations(lines) ==
    [k \in {KeyOf(lines[i], table) : i \in WellFormedIn(lines, Len(lines))} |->
        Cardinality({i \in WellFormedIn(lines, Len(lines)) :
                        KeyOf(lines[i], table) = k})]

ExpectedTags(lines) ==
    [t \in {TagOf(KeyOf(lines[i], table), tag_map) :
               i \in WellFormedIn(lines, Len(lines))} |->
        Cardinality({i \in WellFormedIn(lines, Len(lines)) :
                        TagOf(KeyOf(lines[i], table), tag_map) = t})]

\* analyze_flow_logs has left its with block (all scheduled work awaited).
Finished == flowlogs.path /\ pc \in {"debug", "write", "done"}

\* Worker w is inside the with block of _analyze_flow_logs.
InBatch(w) == wpc[w] \notin {"idle", "acquire"}

(* ============================== claims ================================= *)

\* C1: after a run has finished, the sum of all combinationCounts values
\* equals the number of input lines that have at least 14 fields and whose
\* destination-port and protocol-number fields are both numeric.
C1_SumEqualsValidatedLines ==
    Finished =>
        Sum(combinations_count) =
            Cardinality({i \in 1..Len(flowlogs.rows) :
                            PassesValidation(flowlogs.rows[i])})

\* C2: every line of a batch that violates validation (too few fields,
\* non-numeric port or protocol number, protocol number absent from the
\* table) raises the error counter by exactly one, changes neither count
\* map, raises nothing, and the remaining lines of the batch are processed:
\* whenever a worker is between two lines of its batch, the error counter has
\* grown by the number of violating lines passed and the count maps by the
\* number of well-formed lines passed, and no worker is ever left by an
\* exception.
C2_PerLineFailuresNonFatal ==
    \A w \in Workers :
        /\ wpc[w] # "raise"
        /\ \A i \in 1..Len(fstate) : fstate[i] # "raised"
        /\ wpc[w] \in {"for", "exit"} =>
              /\ errors = entry[w][3]
                          + Cardinality(MalformedIn(BatchOf(w), widx[w] - 1))
              /\ Sum(tag_count) = Sum(entry[w][1])
                          + Cardinality(WellFormedIn(BatchOf(w), widx[w] - 1))
              /\ Sum(combinations_count) = Sum(entry[w][2])
                          + Cardinality(WellFormedIn(BatchOf(w), widx[w] - 1))
        /\ wpc[w] = "exit" => widx[w] = Len(BatchOf(w)) + 1

\* C3: every well-formed line increments exactly one tag count (the mapped
\* tag, else "Untagged") and its combination count; so when a batch has been
\* processed on a fresh parser, tagCounts has one entry per distinct resolved
\* tag, combinationCounts one entry per distinct key, each counting its
\* well-formed lines, and the error counter is the number of the other lines.
C3_BatchCountsOnFreshParser ==
    \A w \in Workers :
        (wpc[w] \in {"exit", "raise"} /\ entry[w] = << EmptyDict, EmptyDict, 0 >>) =>
            /\ tag_count = ExpectedTags(BatchOf(w))
            /\ combinations_count = ExpectedCombinations(BatchOf(w))
            /\ errors = Cardinality(MalformedIn(BatchOf(w), Len(BatchOf(w))))

\* C4: no lost updates: when the workers of the pool have processed all
\* batches, in any interleaving, every key's combination count is the number
\* of well-formed records submitted for it, the tag counts total the number
\* of well-formed records, and the error counter is the number of the other
\* lines submitted.
C4_NoLostUpdates ==
    Finished =>
        /\ combinations_count = ExpectedCombinations(flowlogs.rows)
        /\ Sum(tag_count) =
              Cardinality(WellFormedIn(flowlogs.rows, Len(flowlogs.rows)))
        /\ errors = Cardinality(MalformedIn(flowlogs.rows, Len(flowlogs.rows)))

\* The counts have been read for output: printed or written, or main is at
\* the statements that do so.
Emitting == pc \in {"debug", "write"} \/ stdout # << >> \/ output.written

\* C5: the counts are printed and the report is written only in states where
\* every line of the file has been submitted in a batch and every submitted
\* batch has finished: none queued, none running, the lock free.
C5_OutputOnlyAfterAllWork ==
    Emitting =>
        /\ handle = Len(flowlogs.rows)
        /\ queue = << >>
        /\ \A i \in 1..Len(fstate) : fstate[i] \in {"done", "raised"}
        /\ \A w \in Workers : wpc[w] = "idle"
        /\ counts_lock = 0
        /\ output.written =>
              /\ output.tag_count = tag_count
              /\ output.combinations_count = combinations_count

C5_Witness ==
    /\ output.written
    /\ Len(batches) >= 2
    /\ Sum(output.combinations_count) >= 1
    /\ max_workers >= 2

TagFileMalformed ==
    /\ mapfile.path
    /\ \E i \in 1..Len(mapfile.rows) :
          LET row == mapfile.rows[i] IN
          /\ ~(Len(row) >= 1 /\ row[1] = s_dstport)
          /\ (Len(row) < 3 \/ ~Numeric(row[1]))

\* A row of the protocol-mapping file has too few columns: it is empty, or
\* its first column is an integer and there is no second.  (A row whose
\* first column is no integer is a row to skip, whatever its length.)
ProtoFileTooFewColumns ==
    /\ proto_map_file.path
    /\ \E i \in 1..Len(proto_map_file.rows) :
          LET row == proto_map_file.rows[i] IN
          Len(row) = 0 \/ (Numeric(row[1]) /\ Len(row) < 2)

\* C7: with a malformed tag-mapping row or a protocol-mapping row of too few
\* columns the load step fails, and the run main makes never schedules a
\* batch, changes no count and writes no output.
C7_LoadFailureIsFatal ==
    (TagFileMalformed \/ ProtoFileTooFewColumns) =>
        /\ pc \in {"read_mappings_file", "read_proto_mappings", "failed"}
        /\ batches = << >>
        /\ tag_count = EmptyDict
        /\ combinations_count = EmptyDict
        /\ errors = 0
        /\ ~output.written
        /\ stdout = << >>

\* Every row of the protocol-mapping file either has a first column that is
\* no integer, or has an integer first column and a second column.
ProtoRowsSkippableOrComplete ==
    \A i \in 1..Len(proto_map_file.rows) :
        LET row == proto_map_file.rows[i] IN
        /\ Len(row) >= 1
        /\ (Numeric(row[1]) => Len(row) >= 2)

\* C8: loading a protocol-mapping file skips the rows whose first column is
\* no integer without raising, and every row with an integer first column is
\* in the table afterwards as number -> lower-cased name, wherever the other
\* rows are.
C8_NonIntegerRowsSkipped ==
    ( /\ proto_map_file.path
      /\ ProtoRowsSkippableOrComplete
      /\ ~TagFileMalformed
      /\ pc \notin {"read_mappings_file", "read_proto_mappings"} ) =>
        /\ pc # "failed"
        /\ \A i \in 1..Len(proto_map_file.rows) :
              LET row == proto_map_file.rows[i] IN
              Numeric(row[1]) =>
                 /\ IntOf(row[1]) \in DOMAIN table
                 /\ \E j \in 1..Len(proto_map_file.rows) :
                       LET r == proto_map_file.rows[j] IN
                       /\ Numeric(r[1])
                       /\ IntOf(r[1]) = IntOf(row[1])
                       /\ table[IntOf(row[1])] = Lower(r[2])

\* Every line of the batch has fewer than 14 fields.
AllShort(lines) == \A i \in 1..Len(lines) : Len(lines[i]) < 14

\* C9: a batch whose lines all have fewer than 14 fields leaves tagCounts
\* and combinationCounts as they were when it began (no key added), raises
\* nothing, and when its last line is done the error counter has grown by
\* the number of its lines.
C9_MalformedOnlyBatch ==
    \A w \in Workers :
        (InBatch(w) /\ AllShort(BatchOf(w))) =>
            /\ tag_count = entry[w][1]
            /\ combinations_count = entry[w][2]
            /\ wpc[w] # "raise"
            /\ wpc[w] = "exit" => errors = entry[w][3] + Len(BatchOf(w))

C9_Witness ==
    \E w \in Workers :
        /\ wpc[w] = "exit"
        /\ AllShort(BatchOf(w))
        /\ BatchOf(w) = << L_13, L_empty >>
        /\ errors = 2

\* C10: the final counts depend only on the inputs: however the batches were
\* executed and interleaved, a finished run ends with the counts that the
\* batches give when run one after another in file order (so two runs over
\* the same inputs end with the same counts).
C10_FinalCountsOrderIndependent ==
    Finished =>
        << tag_count, combinations_count, errors >> =
            RunResult(<< EmptyDict, EmptyDict, 0 >>, flowlogs.rows, 0)

\* Two workers ran the two batches of a file, the second taken while the
\* first was running, with lines counted and lines in error.
C10_Witness ==
    /\ Finished
    /\ max_workers >= 2
    /\ Len(batches) >= 2
    /\ wb[2] # 0
    /\ errors >= 1
    /\ Sum(combinations_count) >= 2

RECURSIVE Concat(_)
Concat(ss) == IF ss = << >> THEN << >> ELSE Head(ss) \o Concat(Tail(ss))

\* ceil(l / b)
CeilDiv(l, b) == (l + b - 1) \div b

\* C12: batching partitions the file.  The batches submitted so far,
\* concatenated in submission order, are exactly the lines read so far; every
\* batch is non-empty and has at most CHUNK_SIZE lines, all but the last
\* exactly CHUNK_SIZE; when the read loop has ended the whole file of L lines
\* has been submitted in ceil(L / CHUNK_SIZE) batches; for L = 0 no batch is
\* scheduled and nothing is waited for.
C12_BatchingPartitionsFile ==
    /\ Concat(batches) = SubSeq(flowlogs.rows, 1, handle)
    /\ \A i \in 1..Len(batches) :
          /\ Len(batches[i]) >= 1
          /\ Len(batches[i]) <= CHUNK_SIZE
          /\ i < Len(batches) => Len(batches[i]) = CHUNK_SIZE
    /\ pc \in {"shutdown", "debug", "write", "done"} /\ flowlogs.path =>
          /\ handle = Len(flowlogs.rows)
          /\ Len(batches) = CeilDiv(Len(flowlogs.rows), CHUNK_SIZE)
    /\ pc = "shutdown" /\ Len(flowlogs.rows) = 0 =>
          /\ batches = << >>
          /\ queue = << >>
          /\ \A w \in Workers : wpc[w] = "idle"

\* A finished run over a file that gave a full batch and a final partial one.
C12_Witness ==
    /\ pc = "done"
    /\ Len(batches) = 2
    /\ Len(batches[1]) = CHUNK_SIZE
    /\ Len(batches[2]) = 1
    /\ batches[1] \o batches[2] = flowlogs.rows

\* Worker w is between the two increments of one record: tag_count has
\* been read or written for it, combinations_count not yet written.
MidRecord(w) == wpc[w] \in {"tag_write", "comb_read", "comb_write"}

\* C13: the paired update is one unit.  In every state in which no worker
\* holds the counts lock, also after a batch was ended by an exception, the
\* tagCounts values and the combinationCounts values have the same sum; and
\* while a worker is between the two increments of a record it holds the
\* lock and no other worker is inside the locked block.
C13_PairedUpdateIsOneUnit ==
    /\ counts_lock = 0 => Sum(tag_count) = Sum(combinations_count)
    /\ \A w \in Workers :
          MidRecord(w) =>
             /\ counts_lock = w
             /\ \A v \in Workers \ {w} : ~InBatch(v)
    /\ \A w \in Workers :
          (InBatch(w) /\ ~MidRecord(w) /\ wpc[w] # "tag_read") =>
             Sum(tag_count) = Sum(combinations_count)

\* The lock is free after a batch that counted a record was followed by a
\* batch ended by an exception, a second worker waiting or done.
C13_Witness ==
    /\ counts_lock = 0
    /\ \E i \in 1..Len(fstate) : fstate[i] = "raised"
    /\ Sum(tag_count) >= 1
    /\ max_workers >= 2
    /\ wb[2] # 0

\* The token is an unsigned integer: decimal digits only, no sign.
Unsigned(tok) == Len(tok) >= 1 /\ \A i \in 1..Len(tok) : tok[i] \in Digits

\* C14: a line is accepted only if its destination-port field and its
\* protocol-number field are both unsigned integers: a worker at a line of at
\* least 14 fields in which one of the two is anything else (a signed numeral
\* such as -1 included) only goes on to count an error, and no combination
\* is ever counted for a negative port.
C14_OnlyUnsignedAccepted ==
    /\ \A w \in Workers :
          ( /\ InBatch(w)
            /\ widx[w] <= Len(BatchOf(w))
            /\ Len(LineOf(w)) >= 14
            /\ ~(Unsigned(LineOf(w)[7]) /\ Unsigned(LineOf(w)[8])) ) =>
             wpc[w] \in {"for", "errors_read", "errors_write"}
    /\ \A k \in DOMAIN combinations_count : k[1] >= 0

\* From dict d to dict e no key is removed, no value is lowered and no value
\* is raised by more than one (a new key counting from 0).
GrowsByAtMostOne(d, e) ==
    /\ DOMAIN d \subseteq DOMAIN e
    /\ \A k \in DOMAIN d : e[k] >= d[k] /\ e[k] <= d[k] + 1
    /\ \A k \in DOMAIN e \ DOMAIN d : e[k] >= 0 /\ e[k] <= 1

\* C15: during a run every tagCounts value, every combinationCounts value
\* and the error counter never decrease, no key is removed, and a single
\* step raises a count by at most one.
C15_CountsMonotone ==
    [][ /\ GrowsByAtMostOne(tag_count, tag_count')
        /\ GrowsByAtMostOne(combinations_count, combinations_count')
        /\ errors' >= errors
        /\ errors' <= errors + 1 ]_vars

\* A tag and a combination have been counted twice, and an error once.
C15_Witness ==
    /\ \E t \in DOMAIN tag_count : tag_count[t] >= 2
    /\ \E k \in DOMAIN combinations_count : combinations_count[k] >= 2
    /\ errors >= 1

\* main is past the load stage: in analyze_flow_logs or after it.
Streaming == pc \notin {"read_mappings_file", "read_proto_mappings"}

\* C16: streaming leaves the lookup tables unchanged: no step of
\* analyze_flow_logs or of a worker's _analyze_flow_logs adds, removes or
\* alters an entry of tag_map or table (nor changes the parser's paths), also
\* when the key or the protocol number looked up is absent.
C16_LookupTablesReadOnly ==
    [][ Streaming => /\ tag_map' = tag_map
                     /\ table' = table
                     /\ inputs' = inputs ]_vars

\* Lookups of an absent protocol number and of an absent key have happened,
\* and the tables are as loaded.
C16_Witness ==
    /\ \E i \in 1..Len(fstate) : fstate[i] = "raised"
    /\ Untagged \in DOMAIN tag_count
    /\ DOMAIN table = {6, 17}
    /\ DOMAIN tag_map = { << 80, s_tcp >>, << 81, s_udp >> }

\* C17: every line is accounted for exactly once: after a run over a file of
\* L lines has finished, the error counter plus the sum of all
\* combinationCounts values equals L.
C17_EveryLineAccountedOnce ==
    Finished => errors + Sum(combinations_count) = Len(flowlogs.rows)

(* ============================ fair runs ================================ *)

\* Lines of the three ways through the loop body: counted, counted as an
\* error, ending the batch by an exception.
LiveLines == {L_web, L_empty, L_absent}

InitLive ==
    /\ mapfile = File(GoodTagFile)
    /\ proto_map_file = File(GoodProtoFile)
    /\ flowlogs \in {File(f) : f \in SeqsUpTo(LiveLines, MaxLines)}
    /\ outputfile = TRUE
    /\ max_workers \in {1, MaxWorkers}
    /\ Constructed

\* The main thread and every pool thread are operating-system threads: each
\* one that can take a step eventually takes one.  A thread waiting for the
\* lock gets no more than weak fairness (threading.Lock is not fair).
SpecLive ==
    /\ InitLive
    /\ [][Next]_vars
    /\ WF_vars(\/ read_mappings_file
               \/ read_proto_mappings
               \/ analyze_flow_logs
               \/ ReadChunk
               \/ ExecutorExit
               \/ DebugPrint
               \/ write_output_file)
    /\ \A w \in Workers : WF_vars(Worker(w))

\* A batch has ended, by its return or by an exception.
Ended(i) == i <= Len(fstate) /\ fstate[i] \in {"done", "raised"}

\* C18: termination without deadlock: every scheduled batch eventually
\* ends (normally or by an exception inside the batch), the step that ends
\* a batch in either way leaves the counts lock free, no worker outside a
\* batch holds the lock, and the run eventually reaches the step that writes
\* the report.
C18_TerminatesWithoutDeadlock ==
    /\ \A i \in 1..CeilDiv(MaxLines, CHUNK_SIZE) :
            [](i <= Len(fstate) => <>Ended(i))
    /\ [][ \A i \in 1..Len(fstate) :
              (~Ended(i) /\ Ended(i)') => counts_lock' = 0 ]_vars
    /\ [](\A w \in Workers : ~InBatch(w) => counts_lock # w)
    /\ <>(pc = "write")

\* A batch that ended by an exception was followed by a batch that ended
\* normally, and the run has written the report.
C18_Witness ==
    /\ pc = "done"
    /\ output.written
    /\ Len(fstate) >= 2
    /\ fstate[1] = "raised"
    /\ fstate[2] = "done"
    /\ counts_lock = 0

====
